---- MODULE Spec2Model ----
(***************************************************************************)
(* Transit kiosk: the scan dispatcher (scannerService.js), the local card  *)
(* ledger (testConfig, localStorage), the fare store, the config manager,  *)
(* the offline API wrapper and the failed-operations writer.               *)
(*                                                                         *)
(* Money is held in cents.  Every amount of the model is a multiple of 25  *)
(* cents (the static fares, the 25.00 default balance, the 5.00 top-up     *)
(* step), for which the JavaScript Number arithmetic of the source (+, -,  *)
(* <, toString/parseFloat, toFixed(2)) is exact.                           *)
(***************************************************************************)
EXTENDS Integers, Sequences, FiniteSets, TLC

\* ------------------------------------------------------------------ bounds
MaxTaps == 2            \* scanner clicks in one run (also the clock)
MaxCards == 1           \* cards that can be purchased in one run
MaxIncrements == 1      \* presses of the +5 button that are followed
MaxUpdates == 1         \* balance updates typed into the debug panel
MaxRecords == 27        \* failed operations recorded by direct wrapper calls
MaxSessions == 2        \* page loads in one run
MaxFiles == 4           \* files downloaded in a run of the operator's calls

\* ------------------------------------------------------- program constants
DefaultBalance == 2500          \* testConfig.scanCard: balance = 25.00
StaticMinimumFare == 225        \* transitConfig.minimumFare
HardMinimumFare == 225          \* configManager.getMinimumFare: || 2.25
RetentionCap == 100             \* saveToLocalStorage: slice(-100)
AmountStep == 500               \* handleIncrement: +5
MAX_AMOUNT == 20000             \* AddFareSelectAmountView: MAX_AMOUNT = 200
MIN_AMOUNT == 0                 \* AddFareSelectAmountView: MIN_AMOUNT = 0
PurchaseDefaultAmount == 1500   \* purchaseCardStore: selectedAmount = 15.00

\* localStorage.getItem(...) === null, a ref holding null, an undefined entry
Null == -1

\* import.meta.env.VITE_TEST_CARD_UUID: the one card the scanner reads
TestCard == 0
NewCards == 1..MaxCards
UUIDS == {TestCard} \cup NewCards

\* the stations picked in the selectors of the layout: two of the eight of
\* transitConfig.stations (one priced pair, and the unpriced same-station pairs)
Stations == {1, 2}

\* transitConfig.pricing, in cents
StaticPricing ==
  { [stationA |-> 1, stationB |-> 2, fare |-> 325],
    [stationA |-> 1, stationB |-> 3, fare |-> 450],
    [stationA |-> 1, stationB |-> 4, fare |-> 275],
    [stationA |-> 1, stationB |-> 5, fare |-> 500],
    [stationA |-> 1, stationB |-> 6, fare |-> 375],
    [stationA |-> 1, stationB |-> 7, fare |-> 425],
    [stationA |-> 1, stationB |-> 8, fare |-> 350],
    [stationA |-> 2, stationB |-> 3, fare |-> 400],
    [stationA |-> 2, stationB |-> 4, fare |-> 250],
    [stationA |-> 2, stationB |-> 5, fare |-> 550],
    [stationA |-> 2, stationB |-> 6, fare |-> 300],
    [stationA |-> 2, stationB |-> 7, fare |-> 475],
    [stationA |-> 2, stationB |-> 8, fare |-> 325],
    [stationA |-> 3, stationB |-> 4, fare |-> 225],
    [stationA |-> 3, stationB |-> 5, fare |-> 450],
    [stationA |-> 3, stationB |-> 6, fare |-> 375],
    [stationA |-> 3, stationB |-> 7, fare |-> 525],
    [stationA |-> 3, stationB |-> 8, fare |-> 275],
    [stationA |-> 4, stationB |-> 5, fare |-> 400],
    [stationA |-> 4, stationB |-> 6, fare |-> 350],
    [stationA |-> 4, stationB |-> 7, fare |-> 425],
    [stationA |-> 4, stationB |-> 8, fare |-> 250],
    [stationA |-> 5, stationB |-> 6, fare |-> 500],
    [stationA |-> 5, stationB |-> 7, fare |-> 325],
    [stationA |-> 5, stationB |-> 8, fare |-> 475],
    [stationA |-> 6, stationB |-> 7, fare |-> 375],
    [stationA |-> 6, stationB |-> 8, fare |-> 225],
    [stationA |-> 7, stationB |-> 8, fare |-> 325] }

\* What GET /pricing answers: the table the snapshot was generated from,
\* after a fare revision of 0.25 on every route.
BackendPricing ==
  { [stationA |-> p.stationA, stationB |-> p.stationB, fare |-> p.fare + 25] :
      p \in StaticPricing }

\* transitConfig.stations, by id
StaticStations == <<1, 2, 3, 4, 5, 6, 7, 8>>

\* What GET /stations answers: a station was added after the snapshot
BackendStations == <<1, 2, 3, 4, 5, 6, 7, 8, 9>>

\* What GET /pricing/minimum answers
BackendMinimumFare == 250


\* cacheKey = a < b ? `${a}-${b}` : `${b}-${a}`
CacheKey(a, b) == IF a < b THEN <<a, b>> ELSE <<b, a>>
Keys == { CacheKey(a, b) : a \in Stations, b \in Stations }

\* ------------------------------------------------------------------- state
VARIABLES
  ls_balance,       \* localStorage card_balance_<uuid>  (Null: no item)
  ls_trip,          \* localStorage card_trip_<uuid>     (NoTrip: no item)
  minimumFare,      \* fareStore.minimumFare  (Null until a load completes)
  fareCache,        \* fareStore.fareCache    (Null: undefined entry)
  config,           \* configManager.config: where each of its fields is from
  startedOffline,   \* configManager.startedOffline
  boot,             \* the three startup requests: "pending" or "done"
  addFare,          \* addFareStore: scannedCard, selectedAmount
  purchase,         \* purchaseCardStore: selectedAmount, createdCard (its uuid)
  debug,            \* KioskLayout: showDebugPanel, debugCardData (its uuid);
                    \* updates counts the balance updates so far
  lastScannedCard,  \* KioskLayout: lastScannedCard
  taps,             \* scanner clicks so far; the clock of new Date()
  tasks,            \* one record per tap that awaits the backend
  result,           \* what the last finished handleScan returned
  failedOps,        \* failedOpsWriter.failedOps (in memory)
  ls_failed,        \* localStorage failed_operations
  exported,         \* the files exportToFile has downloaded
  kiosk_id,         \* localStorage kiosk_id
  opCount,          \* failed operations constructed so far (their ids)
  db_trips,         \* the backend's trips, by id
  answer,           \* what the last direct call of a config accessor returned
  session           \* page loads so far; module state starts anew with each

ledger == <<ls_balance, ls_trip>>
fares == <<minimumFare, fareCache, config, startedOffline, boot>>
stores == <<addFare, purchase, debug, lastScannedCard>>
sink == <<failedOps, ls_failed, exported, kiosk_id, opCount>>
vars == <<ls_balance, ls_trip, minimumFare, fareCache, config, startedOffline,
          boot, addFare, purchase, debug, lastScannedCard, taps,
          tasks, result, failedOps, ls_failed, exported, kiosk_id, opCount,
          db_trips, answer, session>>

NoCard == [uuid |-> Null, balance |-> Null]
NoTrip == [station_id |-> Null, timestamp |-> Null]
NoAnswer == [op |-> "none", a |-> Null, b |-> Null, fare |-> Null,
             stations |-> <<>>, count |-> Null]
NoResult == [tap |-> 0, handler |-> "none", success |-> TRUE,
             errorMessage |-> "none", isInsufficientBalance |-> FALSE,
             lastScannedCard |-> NoCard, fare |-> Null, short |-> Null]

\* ------------------------------------------------------------ card ledger
\* testConfig.scanCard: the stored balance, or 25.00 written on first sight
ScanCard(ls) ==
  IF TestCard = Null
    THEN [card |-> NoCard, ls |-> ls]
    ELSE IF ls[TestCard] # Null
      THEN [card |-> [uuid |-> TestCard, balance |-> ls[TestCard]], ls |-> ls]
      ELSE [card |-> [uuid |-> TestCard, balance |-> DefaultBalance],
            ls |-> [ls EXCEPT ![TestCard] = DefaultBalance]]

WriteCardBalance(ls, uuid, newBalance) == [ls EXCEPT ![uuid] = newBalance]

\* writeCardTrip leaving the timestamp out of the stored item
WriteCardTripNoTime(lt, uuid, stationId, timestamp) ==
  [lt EXCEPT ![uuid] = [station_id |-> stationId, timestamp |-> Null]]

WriteCardTrip(lt, uuid, stationId, timestamp) ==
  [lt EXCEPT ![uuid] = [station_id |-> stationId, timestamp |-> timestamp]]

ReadCardTrip(lt, uuid) == lt[uuid]

\* clearCardTrip removing an item under another key: the trip stays
ClearCardTripOtherKey(lt, uuid) == lt

ClearCardTrip(lt, uuid) == [lt EXCEPT ![uuid] = NoTrip]

\* a < b of JavaScript where b may be null (null compares as 0)
JsLess(a, b) == a < (IF b = Null THEN 0 ELSE b)

\* ---------------------------------------------------------- config manager
\* this.config, held as the origin of each field: "null" (no config object),
\* "static" (transitConfig), "backend" (a well-formed response), "empty" (an
\* empty list), "undefined" (a field the response did not have)
NullConfig ==
  [stations |-> "null", pricing |-> "null", minimumFare |-> "null"]
StaticConfig ==
  [stations |-> "static", pricing |-> "static", minimumFare |-> "static"]
BackendConfig ==
  [stations |-> "backend", pricing |-> "backend", minimumFare |-> "backend"]

\* config.pricing
ConfigPricing(c) ==
  CASE c.pricing = "backend" -> BackendPricing
    [] c.pricing = "empty" -> {}
    [] OTHER -> StaticPricing
\* config.minimumFare; 0 stands for a value that is undefined (both falsy)
ConfigMinimumFareOf(c) ==
  CASE c.minimumFare = "backend" -> BackendMinimumFare
    [] c.minimumFare = "static" -> StaticMinimumFare
    [] OTHER -> 0

\* loadStaticConfig
LoadStaticConfig == StaticConfig

\* ensureConfig: loadStaticConfig when there is no config
EnsureConfig(c) == IF c = NullConfig THEN LoadStaticConfig ELSE c

\* getStations: config?.stations || transitConfig.stations
GetStations(c) ==
  LET e == EnsureConfig(c)
  IN CASE e.stations = "backend" -> BackendStations
       [] e.stations = "empty" -> <<>>
       [] OTHER -> StaticStations

\* startedInOfflineMode
StartedInOfflineMode == startedOffline

\* getMinimumFare: config?.minimumFare || transitConfig.minimumFare || 2.25
GetMinimumFare(c) ==
  LET m == ConfigMinimumFareOf(EnsureConfig(c))
  IN IF m # 0 THEN m
     ELSE IF StaticMinimumFare # 0 THEN StaticMinimumFare ELSE HardMinimumFare

\* a getPricing that matches an entry in the orientation asked for only
GetPricingOneWay(c, stationA, stationB) ==
  LET pricing == ConfigPricing(EnsureConfig(c))
      found == { p \in pricing :
                   p.stationA = stationA /\ p.stationB = stationB }
  IN IF found # {} /\ (CHOOSE p \in found : TRUE).fare # 0
       THEN (CHOOSE p \in found : TRUE).fare
       ELSE GetMinimumFare(c)

\* getPricing: the first entry matching either orientation, else the minimum
GetPricing(c, stationA, stationB) ==
  LET pricing == ConfigPricing(EnsureConfig(c))
      found == { p \in pricing :
                   \/ p.stationA = stationA /\ p.stationB = stationB
                   \/ p.stationA = stationB /\ p.stationB = stationA }
  IN IF found # {} /\ (CHOOSE p \in found : TRUE).fare # 0
       THEN (CHOOSE p \in found : TRUE).fare
       ELSE GetMinimumFare(c)

\* -------------------------------------------------------------- fare store
\* the loop of initializeFromConfig / preloadAllFares over a pricing list
CachePricing(cache, pricing) ==
  [k \in Keys |->
     LET hit == { p \in pricing : CacheKey(p.stationA, p.stationB) = k }
     IN IF hit # {} THEN (CHOOSE p \in hit : TRUE).fare ELSE cache[k]]

\* ------------------------------------------------------------------ backend
\* GET /pricing/between/a/b: the stored price of the pair, if there is one
BackendHasFare(a, b) ==
  \E p \in BackendPricing :
     \/ p.stationA = a /\ p.stationB = b
     \/ p.stationA = b /\ p.stationB = a
BackendFare(a, b) ==
  (CHOOSE p \in BackendPricing :
     \/ p.stationA = a /\ p.stationB = b
     \/ p.stationA = b /\ p.stationB = a).fare

ActiveTrips(uuid) ==
  { t \in 1..Len(db_trips) :
      db_trips[t].card = uuid /\ db_trips[t].status = "active" }

\* ------------------------------------------------- failed-operations writer
\* getKioskId: the stored id, or a generated one that is stored
GetKioskId(k) == IF k = Null THEN 1 ELSE k

\* a saveToLocalStorage that keeps the first 100 entries
SaveToLocalStorageKeepFirst(existing, mem) ==
  LET all == existing \o mem
  IN IF Len(all) <= RetentionCap THEN all
     ELSE SubSeq(all, 1, RetentionCap)

\* existing.push(...this.failedOps); existing.slice(-100)
SaveToLocalStorage(existing, mem) ==
  LET all == existing \o mem
  IN IF Len(all) <= RetentionCap THEN all
     ELSE SubSeq(all, Len(all) - RetentionCap + 1, Len(all))

\* writeFailedOperation: construct, push to memory, save, export [failedOp]
WriteFailedOperation(operation) ==
  LET failedOp == [id |-> opCount + 1, kioskId |-> GetKioskId(kiosk_id),
                   operation |-> operation, error |-> "Network unavailable"]
      mem == Append(failedOps, failedOp)
  IN /\ failedOps' = mem
     /\ ls_failed' = SaveToLocalStorage(ls_failed, mem)
     /\ exported' = Append(exported, <<failedOp>>)
     /\ kiosk_id' = GetKioskId(kiosk_id)
     /\ opCount' = opCount + 1

\* ------------------------------------------------------- background tasks
\* A tap that calls the backend leaves a record here: the values its handler
\* captured, the call it is waiting for (stage) and what became of its calls.
NewTask(kind, stage, card, entry, station, amount) ==
  [tap |-> taps + 1, kind |-> kind, stage |-> stage, uuid |-> card.uuid,
   balance |-> card.balance, entry |-> entry, station |-> station,
   amount |-> amount, tripId |-> Null, calls |-> 1, failed |-> 0,
   outcome |-> "pending", ops |-> <<>>, status |-> "none"]

Waiting(i, kind, stage) ==
  /\ i \in 1..Len(tasks)
  /\ tasks[i].kind = kind
  /\ tasks[i].stage = stage

\* the call of task i succeeded and its chain goes on to another call
CallThen(i, stage) ==
  [tasks EXCEPT ![i].stage = stage, ![i].calls = @ + 1]
\* the last call of the chain of task i succeeded
CallEnds(i) == [tasks EXCEPT ![i].stage = "settled", ![i].outcome = "synced"]
\* the call of task i succeeded, and the chain ends before its write
CallSkipped(i) == [tasks EXCEPT ![i].stage = "settled", ![i].outcome = "skipped"]
\* the call of task i failed and its chain ends without a record
CallDropped(i) ==
  [tasks EXCEPT ![i].stage = "settled", ![i].outcome = "dropped",
                ![i].failed = @ + 1]
\* the call of task i failed and the wrapper recorded a failed operation;
\* status is the status of the placeholder the wrapper returns
CallRecorded(i) ==
  [tasks EXCEPT ![i].stage = "settled", ![i].outcome = "recorded",
                ![i].failed = @ + 1, ![i].ops = Append(@, opCount + 1),
                ![i].status = "offline_pending"]

Outcome(handler, success, msg, insufficient, card, fare, short) ==
  [tap |-> taps + 1, handler |-> handler, success |-> success,
   errorMessage |-> msg, isInsufficientBalance |-> insufficient,
   lastScannedCard |-> card, fare |-> fare, short |-> short]

Success(handler) == Outcome(handler, TRUE, "none", FALSE, NoCard, Null, Null)
NoCardError(handler) ==
  Outcome(handler, FALSE, "No test card configured", FALSE, NoCard, Null, Null)

\* handleScannerClick: keep the card of a failed scan for the top-up shortcut
KeepCard(r, last) ==
  IF ~r.success /\ r.lastScannedCard # NoCard THEN r.lastScannedCard ELSE last

\* -------------------------------------------------------------------- Init
\* localStorage outlives the page: the test card's item when the kiosk starts
\* is absent, or a balance an earlier session left
StoredBalances == {Null, 200, 300}

Init ==
  /\ ls_balance \in { [u \in UUIDS |-> IF u = TestCard THEN b ELSE Null] :
                        b \in StoredBalances }
  /\ ls_trip = [u \in UUIDS |-> NoTrip]
  /\ minimumFare = Null
  /\ fareCache = [k \in Keys |-> Null]
  /\ config = NullConfig
  /\ startedOffline = FALSE
  /\ boot = [minFare |-> "pending", preload |-> "pending", init |-> "pending"]
  /\ addFare = [scannedCard |-> NoCard, selectedAmount |-> 0]
  /\ purchase = [selectedAmount |-> PurchaseDefaultAmount, createdCard |-> Null]
  /\ debug = [showDebugPanel |-> FALSE, debugCardData |-> Null, updates |-> 0]
  /\ lastScannedCard = NoCard
  /\ taps = 0
  /\ tasks = <<>>
  /\ result = NoResult
  /\ failedOps = <<>>
  /\ ls_failed = <<>>
  /\ exported = <<>>
  /\ kiosk_id = Null
  /\ opCount = 0
  /\ db_trips = <<>>
  /\ answer = NoAnswer
  /\ session = 1

\* ------------------------------------------------------------------ startup
\* main.js: fareStore.fetchMinimumFare(), the backend answers
FetchMinimumFareOk ==
  /\ boot.minFare = "pending"
  /\ boot' = [boot EXCEPT !.minFare = "done"]
  /\ minimumFare' = BackendMinimumFare
  /\ UNCHANGED <<ledger, fareCache, config, startedOffline, stores, taps, session, answer,
                 tasks, result, sink, db_trips>>

\* ... or offlineApi.getMinimumFare falls back to configManager.getMinimumFare
FetchMinimumFareFail ==
  /\ boot.minFare = "pending"
  /\ boot' = [boot EXCEPT !.minFare = "done"]
  /\ minimumFare' = GetMinimumFare(config)
  /\ config' = EnsureConfig(config)
  /\ UNCHANGED <<ledger, fareCache, startedOffline, stores, taps, session, answer, tasks,
                 result, sink, db_trips>>

\* main.js: fareStore.preloadAllFares(), the backend answers
PreloadAllFaresOk ==
  /\ boot.preload = "pending"
  /\ boot' = [boot EXCEPT !.preload = "done"]
  /\ fareCache' = CachePricing(fareCache, BackendPricing)
  /\ UNCHANGED <<ledger, minimumFare, config, startedOffline, stores, taps, session, answer,
                 tasks, result, sink, db_trips>>

\* ... or offlineApi.getAllPricing maps configManager.config?.pricing || []
PreloadAllFaresFail ==
  /\ boot.preload = "pending"
  /\ boot' = [boot EXCEPT !.preload = "done"]
  /\ fareCache' = CachePricing(fareCache,
                     IF config = NullConfig THEN {} ELSE ConfigPricing(config))
  /\ UNCHANGED <<ledger, minimumFare, config, startedOffline, stores, taps, session, answer,
                 tasks, result, sink, db_trips>>

\* an initialize whose catch loads the snapshot without raising the flag
InitializeFlagDown(stations, pricing, minFare) ==
  IF \/ "failed" \in {stations, pricing, minFare}
     \/ pricing = "null"
     \/ minFare = "null"
    THEN [config |-> LoadStaticConfig, startedOffline |-> FALSE]
    ELSE [config |-> BackendConfig, startedOffline |-> FALSE]

\* configManager.initialize: what config and startedOffline become when the
\* three reads end as given.  A read has "failed", or answered a well-formed
\* body ("list", "object"), an empty list ("empty"), an object without the
\* minimum_fare field ("missing") or a null body ("null").  A failed read
\* rejects Promise.all, a null pricing or minimum-fare body throws while the
\* config object is built; both end in the catch.
Initialize(stations, pricing, minFare) ==
  IF \/ "failed" \in {stations, pricing, minFare}
     \/ pricing = "null"
     \/ minFare = "null"
    THEN [config |-> LoadStaticConfig, startedOffline |-> TRUE]
    ELSE [config |->
            [stations |-> CASE stations = "list" -> "backend"
                            [] stations = "empty" -> "empty"
                            [] OTHER -> "undefined",
             pricing |-> IF pricing = "list" THEN "backend" ELSE "empty",
             minimumFare |-> IF minFare = "object" THEN "backend"
                             ELSE "undefined"],
          startedOffline |-> FALSE]

\* fareStore.initializeFromConfig
InitializeFromConfig(c) ==
  /\ minimumFare' = GetMinimumFare(c)
  /\ fareCache' = CachePricing(fareCache,
                     IF c = NullConfig THEN {} ELSE ConfigPricing(c))

\* App onMounted: configManager.initialize() with all three reads answered,
\* then fareStore.initializeFromConfig
InitializeOk ==
  /\ boot.init = "pending"
  /\ boot' = [boot EXCEPT !.init = "done"]
  /\ LET r == Initialize("list", "list", "object")
     IN /\ config' = r.config
        /\ startedOffline' = r.startedOffline
        /\ InitializeFromConfig(r.config)
  /\ UNCHANGED <<ledger, stores, taps, session, answer, tasks, result, sink, db_trips>>

\* ... or with a read that failed: loadStaticConfig, startedOffline = true
InitializeFail ==
  /\ boot.init = "pending"
  /\ boot' = [boot EXCEPT !.init = "done"]
  /\ \E s \in {"failed", "list"}, p \in {"failed", "list"},
        m \in {"failed", "object"} :
        /\ "failed" \in {s, p, m}
        /\ LET r == Initialize(s, p, m)
           IN /\ config' = r.config
              /\ startedOffline' = r.startedOffline
              /\ InitializeFromConfig(r.config)
  /\ UNCHANGED <<ledger, stores, taps, session, answer, tasks, result, sink, db_trips>>

\* --------------------------------------------------------- scan dispatcher
\* handleDefaultScan: the entry
HandleDefaultScan(entryStationId) ==
  LET scan == ScanCard(ls_balance)
      cardData == scan.card
  IN /\ ls_balance' = scan.ls
     /\ IF cardData = NoCard
          THEN /\ result' = NoCardError("entry")
               /\ UNCHANGED <<ls_trip, tasks>>
          ELSE IF JsLess(cardData.balance, minimumFare)
            THEN /\ result' = Outcome("entry", FALSE, "Insufficient balance",
                                      TRUE, cardData, Null, Null)
                 /\ UNCHANGED <<ls_trip, tasks>>
            ELSE /\ ls_trip' = WriteCardTrip(ls_trip, cardData.uuid,
                                             entryStationId, taps + 1)
                 /\ tasks' = Append(tasks,
                        NewTask("entry", "createTrip", cardData, Null,
                                entryStationId, Null))
                 /\ result' = Success("entry")
     /\ UNCHANGED <<fares, addFare, purchase, debug, sink, db_trips>>

\* handleScanToExit writing the new balance before it compares
ProcessExitDebitFirst(ls, cardData, fare, rejected, accepted, tap) ==
  IF cardData.balance < fare
    THEN /\ ls_balance' = WriteCardBalance(ls, cardData.uuid,
                                           cardData.balance - fare)
         /\ ls_trip' = ls_trip
         /\ tasks' = rejected
         /\ result' = [Outcome("exit", FALSE, "Insufficient balance", TRUE,
                               cardData, fare, fare - cardData.balance)
                         EXCEPT !.tap = tap]
    ELSE /\ ls_balance' = WriteCardBalance(ls, cardData.uuid,
                                           cardData.balance - fare)
         /\ ls_trip' = ClearCardTrip(ls_trip, cardData.uuid)
         /\ tasks' = accepted
         /\ result' = [Outcome("exit", TRUE, "none", FALSE, NoCard, fare, Null)
                         EXCEPT !.tap = tap]

\* handleScanToExit from the balance check on: reject, or debit, clear the
\* trip and start the completion chain with getCardByUuid
ProcessExit(ls, cardData, fare, rejected, accepted, tap) ==
  IF cardData.balance < fare
    THEN /\ ls_balance' = ls
         /\ ls_trip' = ls_trip
         /\ tasks' = rejected
         /\ result' = [Outcome("exit", FALSE, "Insufficient balance", TRUE,
                               cardData, fare, fare - cardData.balance)
                         EXCEPT !.tap = tap]
    ELSE /\ ls_balance' = WriteCardBalance(ls, cardData.uuid,
                                           cardData.balance - fare)
         /\ ls_trip' = ClearCardTrip(ls_trip, cardData.uuid)
         /\ tasks' = accepted
         /\ result' = [Outcome("exit", TRUE, "none", FALSE, NoCard, fare, Null)
                         EXCEPT !.tap = tap]

\* a handleScanToExit that treats a card without a trip as an error
HandleScanToExitTripRequired(exitStationId) ==
  LET scan == ScanCard(ls_balance)
      cardData == scan.card
      tripData == ReadCardTrip(ls_trip, cardData.uuid)
      cacheKey == CacheKey(tripData.station_id, exitStationId)
      task(stage, fare) == NewTask("exit", stage, cardData, tripData.station_id,
                                   exitStationId, fare)
  IN /\ IF cardData = NoCard
          THEN /\ result' = NoCardError("exit")
               /\ UNCHANGED <<ledger, tasks>>
          ELSE IF tripData = NoTrip
            THEN /\ ls_balance' = scan.ls
                 /\ result' = Outcome("exit", FALSE, "No active trip", FALSE,
                                      NoCard, Null, Null)
                 /\ UNCHANGED <<ls_trip, tasks>>
            ELSE IF fareCache[cacheKey] # Null
              THEN ProcessExit(scan.ls, cardData, fareCache[cacheKey],
                     Append(tasks, [task("rejected", fareCache[cacheKey])
                                      EXCEPT !.calls = 0, !.outcome = "none"]),
                     Append(tasks, task("getCard", fareCache[cacheKey])),
                     taps + 1)
              ELSE /\ ls_balance' = scan.ls
                   /\ tasks' = Append(tasks, task("fare", Null))
                   /\ UNCHANGED <<ls_trip, result>>
     /\ UNCHANGED <<fares, addFare, purchase, debug, sink, db_trips>>

\* handleScanToExit up to the fare: answered from the cache, or requested
HandleScanToExit(exitStationId) ==
  LET scan == ScanCard(ls_balance)
      cardData == scan.card
      tripData == ReadCardTrip(ls_trip, cardData.uuid)
      cacheKey == CacheKey(tripData.station_id, exitStationId)
      task(stage, fare) == NewTask("exit", stage, cardData, tripData.station_id,
                                   exitStationId, fare)
  IN /\ IF cardData = NoCard
          THEN /\ result' = NoCardError("exit")
               /\ UNCHANGED <<ledger, tasks>>
          ELSE IF tripData = NoTrip
            THEN /\ ls_balance' = scan.ls
                 /\ result' = Success("exit")
                 /\ UNCHANGED <<ls_trip, tasks>>
            ELSE IF fareCache[cacheKey] # Null
              THEN ProcessExit(scan.ls, cardData, fareCache[cacheKey],
                     Append(tasks, [task("rejected", fareCache[cacheKey])
                                      EXCEPT !.calls = 0, !.outcome = "none"]),
                     Append(tasks, task("getCard", fareCache[cacheKey])),
                     taps + 1)
              ELSE /\ ls_balance' = scan.ls
                   /\ tasks' = Append(tasks, task("fare", Null))
                   /\ UNCHANGED <<ls_trip, result>>
     /\ UNCHANGED <<fares, addFare, purchase, debug, sink, db_trips>>

\* handleHistoryScan (historyStore.scannedCard is read by the history view only)
HandleHistoryScan ==
  LET scan == ScanCard(ls_balance)
  IN /\ ls_balance' = scan.ls
     /\ result' = IF scan.card = NoCard THEN NoCardError("history")
                  ELSE Success("history")
     /\ UNCHANGED <<ls_trip, fares, addFare, purchase, debug, tasks, sink, db_trips>>

\* handleAddFareScan
HandleAddFareScan ==
  LET scan == ScanCard(ls_balance)
  IN /\ ls_balance' = scan.ls
     /\ IF scan.card = NoCard
          THEN /\ result' = NoCardError("add-fare")
               /\ UNCHANGED addFare
          ELSE /\ addFare' = [addFare EXCEPT !.scannedCard = scan.card]
               /\ result' = Success("add-fare")
     /\ UNCHANGED <<ls_trip, fares, purchase, debug, tasks, sink, db_trips>>

\* handleAddFarePayment: the top-up
HandleAddFarePayment ==
  LET cardUuid == addFare.scannedCard.uuid
      currentBalance == addFare.scannedCard.balance
      amountToAdd == addFare.selectedAmount
      newBalance == currentBalance + amountToAdd
  IN /\ IF cardUuid = Null
          THEN /\ result' = Outcome("add-fare-payment", FALSE, "No card selected",
                                    FALSE, NoCard, Null, Null)
               /\ UNCHANGED <<ls_balance, addFare, tasks>>
          ELSE /\ ls_balance' = WriteCardBalance(ls_balance, cardUuid, newBalance)
               /\ addFare' = [addFare EXCEPT !.scannedCard =
                                [uuid |-> cardUuid, balance |-> newBalance]]
               /\ tasks' = Append(tasks,
                      NewTask("topup", "getCard", addFare.scannedCard, Null,
                              Null, amountToAdd))
               /\ result' = Success("add-fare-payment")
     /\ UNCHANGED <<ls_trip, fares, purchase, debug, sink, db_trips>>

\* handleAddFareComplete
HandleAddFareComplete ==
  /\ addFare' = [scannedCard |-> NoCard, selectedAmount |-> 0]
  /\ result' = Success("add-fare-complete")
  /\ UNCHANGED <<ledger, fares, purchase, debug, tasks, sink, db_trips>>

\* handlePurchaseCardPayment: a card with a fresh uuid
HandlePurchaseCardPayment ==
  /\ \E u \in NewCards : ls_balance[u] = Null
  /\ LET newCardUuid == CHOOSE u \in NewCards :
                           /\ ls_balance[u] = Null
                           /\ \A v \in NewCards : ls_balance[v] = Null => u <= v
         initialBalance == purchase.selectedAmount
         created == [uuid |-> newCardUuid, balance |-> initialBalance]
     IN /\ ls_balance' = WriteCardBalance(ls_balance, newCardUuid, initialBalance)
        /\ purchase' = [purchase EXCEPT !.createdCard = newCardUuid]
        /\ tasks' = Append(tasks,
               NewTask("purchase", "createCard", created, Null, Null,
                       initialBalance))
        /\ result' = Success("purchase-card-payment")
  /\ UNCHANGED <<ls_trip, fares, addFare, debug, sink, db_trips>>

\* handlePurchaseCardDispensing
HandlePurchaseCardDispensing ==
  /\ purchase' = [selectedAmount |-> PurchaseDefaultAmount, createdCard |-> Null]
  /\ result' = Success("purchase-card-dispensing")
  /\ UNCHANGED <<ledger, fares, addFare, debug, tasks, sink, db_trips>>

\* the route names of the router, and the one the history view is pushed to
Routes ==
  { "home", "enter", "scan-to-exit", "exit", "menu", "purchase-card",
    "purchase-card-payment", "purchase-card-dispensing", "add-fare",
    "add-fare-select-amount", "add-fare-payment", "add-fare-complete",
    "history" }

\* handleScan: the switch on the route name
HandleScan(routeName, entryStationId, exitStationId) ==
  CASE routeName = "history" -> HandleHistoryScan
    [] routeName = "add-fare" -> HandleAddFareScan
    [] routeName = "add-fare-payment" -> HandleAddFarePayment
    [] routeName = "add-fare-complete" -> HandleAddFareComplete
    [] routeName = "purchase-card-payment" -> HandlePurchaseCardPayment
    [] routeName = "purchase-card-dispensing" -> HandlePurchaseCardDispensing
    [] routeName = "scan-to-exit" -> HandleScanToExit(exitStationId)
    [] OTHER -> HandleDefaultScan(entryStationId)

\* KioskLayout handleScannerClick: a click on the scanner while routeName is
\* shown; the returned outcome is applied unless the handler is still waiting
HandleScannerClick(routeName, entryStationId, exitStationId) ==
  /\ taps < MaxTaps
  /\ taps' = taps + 1
  /\ HandleScan(routeName, entryStationId, exitStationId)
  /\ UNCHANGED <<answer, session>>
  /\ lastScannedCard' = IF result' = result THEN lastScannedCard
                        ELSE KeepCard(result', lastScannedCard)

\* ------------------------------------------- fare request of a waiting exit
\* fetchFareBetweenStations after the await: cache the price, then the rest
\* of handleScanToExit with the card data read before the await
ResumeExit(i, price, failed) ==
  LET t == tasks[i]
      cardData == [uuid |-> t.uuid, balance |-> t.balance]
  IN /\ fareCache' = [fareCache EXCEPT ![CacheKey(t.entry, t.station)] = price]
     /\ ProcessExit(ls_balance, cardData, price,
           [tasks EXCEPT ![i].stage = "rejected", ![i].amount = price,
                         ![i].failed = failed, ![i].outcome = "none"],
           [tasks EXCEPT ![i].stage = "getCard", ![i].amount = price,
                         ![i].failed = failed, ![i].calls = @ + 1],
           t.tap)
     /\ lastScannedCard' = KeepCard(result', lastScannedCard)

\* GET /pricing/between answers with the backend's price
FareFetchOk(i) ==
  /\ Waiting(i, "exit", "fare")
  /\ BackendHasFare(tasks[i].entry, tasks[i].station)
  /\ ResumeExit(i, BackendFare(tasks[i].entry, tasks[i].station), 0)
  /\ UNCHANGED <<minimumFare, config, startedOffline, boot, addFare, purchase,
                 debug, taps, session, answer, sink, db_trips>>

\* ... or fails: offlineApi.getFareBetweenStations answers from the config
FareFetchFail(i) ==
  /\ Waiting(i, "exit", "fare")
  /\ ResumeExit(i, GetPricing(config, tasks[i].entry, tasks[i].station), 1)
  /\ config' = EnsureConfig(config)
  /\ UNCHANGED <<minimumFare, startedOffline, boot, addFare, purchase,
                 debug, taps, session, answer, sink, db_trips>>

\* ------------------------------------------------ entry: api.createTrip
CreateTripOk(i) ==
  /\ Waiting(i, "entry", "createTrip")
  /\ db_trips' = Append(db_trips, [card |-> tasks[i].uuid,
                                    source |-> tasks[i].station,
                                    status |-> "active"])
  /\ tasks' = [CallEnds(i) EXCEPT ![i].tripId = Len(db_trips) + 1]
  /\ UNCHANGED <<ledger, fares, stores, taps, session, answer, result, sink>>

\* a createTrip failure that the tap's outcome reports
CreateTripFailReported(i) ==
  /\ Waiting(i, "entry", "createTrip")
  /\ WriteFailedOperation([type |-> "CREATE_TRIP",
        data |-> [cardUuid |-> tasks[i].uuid, stationId |-> tasks[i].station]])
  /\ tasks' = CallRecorded(i)
  /\ result' = [result EXCEPT !.success = FALSE,
                              !.errorMessage = "Failed to process entry"]
  /\ UNCHANGED <<ledger, fares, stores, taps, session, answer, db_trips>>

CreateTripFail(i) ==
  /\ Waiting(i, "entry", "createTrip")
  /\ WriteFailedOperation([type |-> "CREATE_TRIP",
        data |-> [cardUuid |-> tasks[i].uuid, stationId |-> tasks[i].station]])
  /\ tasks' = CallRecorded(i)
  /\ UNCHANGED <<ledger, fares, stores, taps, session, answer, result, db_trips>>

\* --------------------- exit: getCardByUuid, getActiveTrip, completeTrip
ExitGetCardOk(i) ==
  /\ Waiting(i, "exit", "getCard")
  /\ tasks' = CallThen(i, "getActiveTrip")
  /\ UNCHANGED <<ledger, fares, stores, taps, session, answer, result, sink, db_trips>>

\* offlineApi.getCardByUuid returns null: if (card) skips the rest
ExitGetCardFail(i) ==
  /\ Waiting(i, "exit", "getCard")
  /\ tasks' = CallDropped(i)
  /\ UNCHANGED <<ledger, fares, stores, taps, session, answer, result, sink, db_trips>>

ExitGetActiveTripOk(i) ==
  /\ Waiting(i, "exit", "getActiveTrip")
  /\ \E trip \in ActiveTrips(tasks[i].uuid) :
        tasks' = [CallThen(i, "completeTrip") EXCEPT ![i].tripId = trip]
  /\ UNCHANGED <<ledger, fares, stores, taps, session, answer, result, sink, db_trips>>

\* the backend knows no active trip of the card: if (activeTrip) skips the rest
ExitGetActiveTripNone(i) ==
  /\ Waiting(i, "exit", "getActiveTrip")
  /\ ActiveTrips(tasks[i].uuid) = {}
  /\ tasks' = CallSkipped(i)
  /\ UNCHANGED <<ledger, fares, stores, taps, session, answer, result, sink, db_trips>>

\* offlineApi.getActiveTrip returns null
ExitGetActiveTripFail(i) ==
  /\ Waiting(i, "exit", "getActiveTrip")
  /\ tasks' = CallDropped(i)
  /\ UNCHANGED <<ledger, fares, stores, taps, session, answer, result, sink, db_trips>>

CompleteTripOk(i) ==
  /\ Waiting(i, "exit", "completeTrip")
  /\ db_trips[tasks[i].tripId].status = "active"
  /\ db_trips' = [db_trips EXCEPT ![tasks[i].tripId].status = "completed"]
  /\ tasks' = CallEnds(i)
  /\ UNCHANGED <<ledger, fares, stores, taps, session, answer, result, sink>>

\* a completeTrip failure that gives the fare back
CompleteTripFailRefund(i) ==
  /\ Waiting(i, "exit", "completeTrip")
  /\ WriteFailedOperation([type |-> "COMPLETE_TRIP",
        data |-> [tripId |-> tasks[i].tripId,
                  destinationStationId |-> tasks[i].station,
                  finalCost |-> tasks[i].amount]])
  /\ tasks' = CallRecorded(i)
  /\ ls_balance' = WriteCardBalance(ls_balance, tasks[i].uuid,
                                    ls_balance[tasks[i].uuid] + tasks[i].amount)
  /\ UNCHANGED <<ls_trip, fares, stores, taps, session, answer, result, db_trips>>

CompleteTripFail(i) ==
  /\ Waiting(i, "exit", "completeTrip")
  /\ WriteFailedOperation([type |-> "COMPLETE_TRIP",
        data |-> [tripId |-> tasks[i].tripId,
                  destinationStationId |-> tasks[i].station,
                  finalCost |-> tasks[i].amount]])
  /\ tasks' = CallRecorded(i)
  /\ UNCHANGED <<ledger, fares, stores, taps, session, answer, result, db_trips>>

\* ----------------------------------- top-up: getCardByUuid, addFunds
TopUpGetCardOk(i) ==
  /\ Waiting(i, "topup", "getCard")
  /\ tasks' = CallThen(i, "addFunds")
  /\ UNCHANGED <<ledger, fares, stores, taps, session, answer, result, sink, db_trips>>

\* offlineApi.getCardByUuid returns null: card.id throws inside then(), the
\* outer catch logs 'Card not found in DB'
TopUpGetCardFail(i) ==
  /\ Waiting(i, "topup", "getCard")
  /\ tasks' = CallDropped(i)
  /\ UNCHANGED <<ledger, fares, stores, taps, session, answer, result, sink, db_trips>>

AddFundsOk(i) ==
  /\ Waiting(i, "topup", "addFunds")
  /\ tasks' = CallEnds(i)
  /\ UNCHANGED <<ledger, fares, stores, taps, session, answer, result, sink, db_trips>>

\* an addFunds failure that resolves without a record
AddFundsFailUnrecorded(i) ==
  /\ Waiting(i, "topup", "addFunds")
  /\ tasks' = CallDropped(i)
  /\ UNCHANGED <<ledger, fares, stores, taps, session, answer, result, sink, db_trips>>

AddFundsFail(i) ==
  /\ Waiting(i, "topup", "addFunds")
  /\ WriteFailedOperation([type |-> "ADD_FUNDS",
        data |-> [cardId |-> tasks[i].uuid, amount |-> tasks[i].amount]])
  /\ tasks' = CallRecorded(i)
  /\ UNCHANGED <<ledger, fares, stores, taps, session, answer, result, db_trips>>

\* ------------------------------------------- purchase: api.createCard
CreateCardOk(i) ==
  /\ Waiting(i, "purchase", "createCard")
  /\ tasks' = CallEnds(i)
  /\ UNCHANGED <<ledger, fares, stores, taps, session, answer, result, sink, db_trips>>

CreateCardFail(i) ==
  /\ Waiting(i, "purchase", "createCard")
  /\ WriteFailedOperation([type |-> "CREATE_CARD",
        data |-> [initialBalance |-> tasks[i].amount, uuid |-> tasks[i].uuid]])
  /\ tasks' = CallRecorded(i)
  /\ UNCHANGED <<ledger, fares, stores, taps, session, answer, result, db_trips>>

\* ------------------------------------------------------ views and layout
\* AddFareSelectAmountView handleIncrement / handleDecrement
HandleIncrement ==
  /\ addFare.scannedCard # NoCard
  /\ addFare.selectedAmount + AmountStep <= MAX_AMOUNT
  /\ addFare.selectedAmount + AmountStep <= MaxIncrements * AmountStep
  /\ addFare' = [addFare EXCEPT !.selectedAmount = @ + AmountStep]
  /\ UNCHANGED <<ledger, fares, purchase, debug, lastScannedCard,
                 taps, session, answer, tasks, result, sink, db_trips>>

HandleDecrement ==
  /\ addFare.scannedCard # NoCard
  /\ addFare.selectedAmount - AmountStep >= MIN_AMOUNT
  /\ addFare' = [addFare EXCEPT !.selectedAmount = @ - AmountStep]
  /\ UNCHANGED <<ledger, fares, purchase, debug, lastScannedCard,
                 taps, session, answer, tasks, result, sink, db_trips>>

\* AddFareCompleteView handleDone, AddFareSelectAmountView handleCancel
HandleDone ==
  /\ addFare # [scannedCard |-> NoCard, selectedAmount |-> 0]
  /\ addFare' = [scannedCard |-> NoCard, selectedAmount |-> 0]
  /\ UNCHANGED <<ledger, fares, purchase, debug, lastScannedCard,
                 taps, session, answer, tasks, result, sink, db_trips>>

\* KioskLayout handleAddFunds: the top-up shortcut of a rejected tap
HandleAddFunds ==
  /\ lastScannedCard # NoCard
  /\ addFare' = [addFare EXCEPT !.scannedCard = lastScannedCard]
  /\ UNCHANGED <<ledger, fares, purchase, debug, lastScannedCard,
                 taps, session, answer, tasks, result, sink, db_trips>>

\* KioskLayout toggleDebugPanel
ToggleDebugPanel ==
  LET scan == ScanCard(ls_balance)
  IN /\ IF ~debug.showDebugPanel
          THEN /\ debug' = [debug EXCEPT !.showDebugPanel = TRUE,
                                            !.debugCardData = scan.card.uuid]
               /\ ls_balance' = scan.ls
          ELSE /\ debug' = [debug EXCEPT !.showDebugPanel = FALSE]
               /\ UNCHANGED ls_balance
     /\ UNCHANGED <<ls_trip, fares, addFare, purchase, lastScannedCard, taps, session, answer, tasks, result, sink, db_trips>>

\* the balances typed into the debug panel
DebugBalances == {-100, 0, 300}

\* an updateBalance that writes whatever was typed
UpdateBalanceUnchecked(newBalance) ==
  /\ debug.showDebugPanel
  /\ debug.updates < MaxUpdates
  /\ debug.debugCardData # Null
  /\ ls_balance' = WriteCardBalance(ls_balance, debug.debugCardData, newBalance)
  /\ debug' = [debug EXCEPT !.updates = @ + 1]
  /\ UNCHANGED <<ls_trip, fares, addFare, purchase, lastScannedCard, taps, session, answer, tasks, result, sink, db_trips>>

\* KioskLayout updateBalance
UpdateBalance(newBalance) ==
  /\ debug.showDebugPanel
  /\ debug.updates < MaxUpdates
  /\ debug.debugCardData # Null /\ newBalance >= 0
  /\ ls_balance' = WriteCardBalance(ls_balance, debug.debugCardData, newBalance)
  /\ debug' = [debug EXCEPT !.updates = @ + 1]
  /\ UNCHANGED <<ls_trip, fares, addFare, purchase, lastScannedCard, taps, session, answer, tasks, result, sink, db_trips>>

\* -------------------------------------------------------------------- Next
Next ==
  \/ FetchMinimumFareOk
  \/ FetchMinimumFareFail
  \/ PreloadAllFaresOk
  \/ PreloadAllFaresFail
  \/ InitializeOk
  \/ InitializeFail
  \/ \E r \in Routes, s \in Stations : HandleScannerClick(r, s, s)
  \/ \E i \in 1..Len(tasks) :
       \/ FareFetchOk(i)
       \/ FareFetchFail(i)
       \/ CreateTripOk(i)
       \/ CreateTripFail(i)
       \/ ExitGetCardOk(i)
       \/ ExitGetCardFail(i)
       \/ ExitGetActiveTripOk(i)
       \/ ExitGetActiveTripNone(i)
       \/ ExitGetActiveTripFail(i)
       \/ CompleteTripOk(i)
       \/ CompleteTripFail(i)
       \/ TopUpGetCardOk(i)
       \/ TopUpGetCardFail(i)
       \/ AddFundsOk(i)
       \/ AddFundsFail(i)
       \/ CreateCardOk(i)
       \/ CreateCardFail(i)
  \/ HandleIncrement
  \/ HandleDecrement
  \/ HandleDone
  \/ HandleAddFunds

Spec == Init /\ [][Next]_vars

\* the same kiosk with the debug panel of the layout in use
NextDebug ==
  \/ Next
  \/ ToggleDebugPanel
  \/ \E b \in DebugBalances : UpdateBalance(b)

SpecDebug == Init /\ [][NextDebug]_vars

\* ------------------------------------------- the config manager, called directly
\* the ids a caller may ask about
StationIds == { BackendStations[i] : i \in DOMAIN BackendStations }

\* how GET /stations, GET /pricing and GET /pricing/minimum may end
StationsBodies == {"failed", "list", "empty", "null"}
PricingBodies == {"failed", "list", "empty", "null"}
MinFareBodies == {"failed", "object", "missing", "null"}

\* fareStore.getFareBetweenStations
GetFareBetweenStations(cache, stationAId, stationBId) ==
  cache[CacheKey(stationAId, stationBId)]

\* await configManager.initialize(), any number of times
ConfigInitialize(stations, pricing, minFare) ==
  /\ LET r == Initialize(stations, pricing, minFare)
     IN /\ config' = r.config
        /\ startedOffline' = r.startedOffline
  /\ answer' = [NoAnswer EXCEPT !.op = "initialize"]
  /\ UNCHANGED <<ledger, minimumFare, fareCache, boot, stores, taps, session, tasks,
                 result, sink, db_trips>>

\* configManager.getStations()
CallGetStations ==
  /\ config' = EnsureConfig(config)
  /\ answer' = [NoAnswer EXCEPT !.op = "getStations",
                                !.stations = GetStations(config)]
  /\ UNCHANGED <<ledger, minimumFare, fareCache, startedOffline, boot, stores,
                 taps, session, tasks, result, sink, db_trips>>

\* configManager.getPricing(stationA, stationB)
CallGetPricing(stationA, stationB) ==
  /\ config' = EnsureConfig(config)
  /\ answer' = [NoAnswer EXCEPT !.op = "getPricing", !.a = stationA,
                                !.b = stationB,
                                !.fare = GetPricing(config, stationA, stationB)]
  /\ UNCHANGED <<ledger, minimumFare, fareCache, startedOffline, boot, stores,
                 taps, session, tasks, result, sink, db_trips>>

\* configManager.getMinimumFare()
CallGetMinimumFare ==
  /\ config' = EnsureConfig(config)
  /\ answer' = [NoAnswer EXCEPT !.op = "getMinimumFare",
                                !.fare = GetMinimumFare(config)]
  /\ UNCHANGED <<ledger, minimumFare, fareCache, startedOffline, boot, stores,
                 taps, session, tasks, result, sink, db_trips>>

\* fareStore.getFareBetweenStations(stationAId, stationBId)
CallGetFareBetweenStations(stationAId, stationBId) ==
  /\ answer' = [NoAnswer EXCEPT
                  !.op = "getFareBetweenStations", !.a = stationAId,
                  !.b = stationBId,
                  !.fare = GetFareBetweenStations(fareCache, stationAId,
                                                  stationBId)]
  /\ UNCHANGED <<ledger, fares, stores, taps, session, tasks, result, sink, db_trips>>

NextConfig ==
  \/ \E s \in StationsBodies, p \in PricingBodies, m \in MinFareBodies :
       ConfigInitialize(s, p, m)
  \/ InitializeOk
  \/ InitializeFail
  \/ CallGetStations
  \/ \E a \in StationIds, b \in StationIds : CallGetPricing(a, b)
  \/ CallGetMinimumFare
  \/ \E a \in Stations, b \in Stations : CallGetFareBetweenStations(a, b)

SpecConfig == Init /\ [][NextConfig]_vars

\* ----------------------------------- the failed-operations writer, called directly
\* await offlineApi.createTrip('test-card-123', 1) with the backend down
OfflineCreateTripFails ==
  /\ opCount < MaxRecords
  /\ WriteFailedOperation([type |-> "CREATE_TRIP",
        data |-> [cardUuid |-> TestCard, stationId |-> 1]])
  /\ UNCHANGED <<ledger, fares, stores, taps, session, tasks, result, db_trips,
                 answer>>

\* the page is loaded again: every module's state is constructed anew,
\* localStorage and the downloaded files stay
Reload ==
  /\ session < MaxSessions
  /\ session' = session + 1
  /\ failedOps' = <<>>
  /\ minimumFare' = Null
  /\ fareCache' = [k \in Keys |-> Null]
  /\ config' = NullConfig
  /\ startedOffline' = FALSE
  /\ boot' = [minFare |-> "pending", preload |-> "pending", init |-> "pending"]
  /\ addFare' = [scannedCard |-> NoCard, selectedAmount |-> 0]
  /\ purchase' = [selectedAmount |-> PurchaseDefaultAmount,
                  createdCard |-> Null]
  /\ debug' = [debug EXCEPT !.showDebugPanel = FALSE, !.debugCardData = Null]
  /\ lastScannedCard' = NoCard
  /\ UNCHANGED <<ledger, ls_failed, exported, kiosk_id, opCount, taps, tasks,
                 result, db_trips, answer>>

NextSink ==
  \/ OfflineCreateTripFails
  \/ Reload

SpecSink == Init /\ [][NextSink]_vars

\* ------------------------------- the writer's backlog, handled by an operator
\* await offlineApi.createCard(20.00, 'new-card-456') with the backend down
OfflineCreateCardFails ==
  /\ Len(exported) < MaxFiles
  /\ WriteFailedOperation([type |-> "CREATE_CARD",
        data |-> [initialBalance |-> 2000, uuid |-> 1]])
  /\ answer' = [NoAnswer EXCEPT !.op = "createCard"]
  /\ UNCHANGED <<ledger, fares, stores, taps, session, tasks, result, db_trips>>

\* an exportAllFromStorage that exports the backlog and then removes it
ExportAllFromStorageOnce ==
  /\ Len(exported) < MaxFiles
  /\ IF ls_failed = <<>>
       THEN UNCHANGED <<exported, kiosk_id>>
       ELSE /\ exported' = Append(exported, ls_failed)
            /\ kiosk_id' = GetKioskId(kiosk_id)
  /\ ls_failed' = <<>>
  /\ answer' = [NoAnswer EXCEPT !.op = "exportAllFromStorage",
                                !.count = Len(ls_failed)]
  /\ UNCHANGED <<ledger, fares, stores, taps, session, tasks, result, db_trips,
                 failedOps, opCount>>

\* exportAllFromStorage: exportToFile(allOps) unless the backlog is empty;
\* count is the number of operations in the file (0: returned false)
ExportAllFromStorage ==
  /\ Len(exported) < MaxFiles
  /\ IF ls_failed = <<>>
       THEN UNCHANGED <<exported, kiosk_id>>
       ELSE /\ exported' = Append(exported, ls_failed)
            /\ kiosk_id' = GetKioskId(kiosk_id)
  /\ answer' = [NoAnswer EXCEPT !.op = "exportAllFromStorage",
                                !.count = Len(ls_failed)]
  /\ UNCHANGED <<ledger, fares, stores, taps, session, tasks, result, db_trips,
                 failedOps, ls_failed, opCount>>

\* clearStorage: localStorage.removeItem('failed_operations')
ClearStorage ==
  /\ ls_failed' = <<>>
  /\ answer' = [NoAnswer EXCEPT !.op = "clearStorage"]
  /\ UNCHANGED <<ledger, fares, stores, taps, session, tasks, result, db_trips,
                 failedOps, exported, kiosk_id, opCount>>

\* getPendingCount
GetPendingCount ==
  /\ answer' = [NoAnswer EXCEPT !.op = "getPendingCount",
                                !.count = Len(ls_failed)]
  /\ UNCHANGED <<ledger, fares, stores, taps, session, tasks, result, db_trips,
                 sink>>

NextExport ==
  \/ OfflineCreateCardFails
  \/ ExportAllFromStorage
  \/ ClearStorage
  \/ GetPendingCount
  \/ Reload

SpecExport == Init /\ [][NextExport]_vars

\* ------------------------------------------ the writer with a failing browser
\* where a call of writeFailedOperation can fail: localStorage throwing in the
\* getKioskId of the constructed operation ("kioskId"), in saveToLocalStorage
\* ("save") or in the getKioskId of exportToFile ("exportKioskId"), and the
\* download throwing ("export")
SinkFaults == {"kioskId", "save", "exportKioskId", "export"}

\* the faults no try block encloses: writeFailedOperation rejects
Uncaught(fault) == fault \in {"kioskId", "exportKioskId"}

\* writeFailedOperation up to the fault, and on from it where it is caught
WriteFailedOperationFaulty(operation, fault) ==
  LET failedOp == [id |-> opCount + 1, kioskId |-> GetKioskId(kiosk_id),
                   operation |-> operation, error |-> "Network unavailable"]
      mem == Append(failedOps, failedOp)
  IN IF fault = "kioskId"
       THEN UNCHANGED sink
       ELSE /\ failedOps' = mem
            /\ ls_failed' = IF fault = "save" THEN ls_failed
                            ELSE SaveToLocalStorage(ls_failed, mem)
            /\ exported' = IF fault = "save"
                             THEN Append(exported, <<failedOp>>)
                             ELSE exported
            /\ kiosk_id' = GetKioskId(kiosk_id)
            /\ opCount' = opCount + 1

\* offlineApi.createTrip whose backend call fails and whose record fails too:
\* the await in the catch block throws when writeFailedOperation rejects, and
\* the .catch of handleDefaultScan logs it
CreateTripFailSinkFails(i, fault) ==
  /\ Waiting(i, "entry", "createTrip")
  /\ WriteFailedOperationFaulty([type |-> "CREATE_TRIP",
        data |-> [cardUuid |-> tasks[i].uuid, stationId |-> tasks[i].station]],
        fault)
  /\ tasks' = [tasks EXCEPT
                 ![i].stage = "settled",
                 ![i].failed = @ + 1,
                 ![i].outcome = IF Uncaught(fault) THEN "threw" ELSE "recorded",
                 ![i].status = IF Uncaught(fault) THEN "none"
                               ELSE "offline_pending"]
  /\ UNCHANGED <<ledger, fares, stores, taps, session, answer, result, db_trips>>

NextFaulty ==
  \/ Next
  \/ \E i \in 1..Len(tasks), fault \in SinkFaults :
       CreateTripFailSinkFails(i, fault)

SpecFaulty == Init /\ [][NextFaulty]_vars

\* ------------------------------------------- a backend that may stay silent
\* the stages in which a task has a request open
OpenStages ==
  {"fare", "createTrip", "getCard", "getActiveTrip", "completeTrip",
   "addFunds", "createCard"}

\* the request task i waits for never gets a response: apiClient is created
\* without a timeout, so its promise stays pending and no callback runs
RequestHangs(i) ==
  /\ i \in 1..Len(tasks)
  /\ tasks[i].stage \in OpenStages
  /\ tasks' = [tasks EXCEPT ![i].stage = "hung"]
  /\ UNCHANGED <<ledger, fares, stores, taps, session, answer, result, sink,
                 db_trips>>

NextHang ==
  \/ Next
  \/ \E i \in 1..Len(tasks) : RequestHangs(i)

\* the request task i waits for is answered or fails, and its callback runs
Responds(i) ==
  \/ FareFetchOk(i)
  \/ FareFetchFail(i)
  \/ CreateTripOk(i)
  \/ CreateTripFail(i)
  \/ ExitGetCardOk(i)
  \/ ExitGetCardFail(i)
  \/ ExitGetActiveTripOk(i)
  \/ ExitGetActiveTripNone(i)
  \/ ExitGetActiveTripFail(i)
  \/ CompleteTripOk(i)
  \/ CompleteTripFail(i)
  \/ TopUpGetCardOk(i)
  \/ TopUpGetCardFail(i)
  \/ AddFundsOk(i)
  \/ AddFundsFail(i)
  \/ CreateCardOk(i)
  \/ CreateCardFail(i)

\* a request that is answered or fails has its callback run by the event
\* loop, whatever else the passenger does meanwhile
SpecHang ==
  Init /\ [][NextHang]_vars /\ \A i \in 1..MaxTaps : WF_vars(Responds(i))

\* ================================================================ properties
\* the fare store's price for the pair, once it is resolved
FareOf(cache, entryStationId, exitStationId) ==
  cache[CacheKey(entryStationId, exitStationId)]

Settled(i) == tasks[i].stage = "settled"

\* the persisted backlog holds a record of task i of the given type
Persisted(i, type) ==
  \E k \in 1..Len(ls_failed) :
     /\ \E j \in 1..Len(tasks[i].ops) : ls_failed[k].id = tasks[i].ops[j]
     /\ ls_failed[k].operation.type = type

\* C2: when every backend call issued by an accepted exit has failed and its
\* background sync has settled, the backlog has gained exactly one entry for
\* it, of type COMPLETE_TRIP, carrying the destination station and the fare.
C2_ExitBackendUnreachable ==
  \A i \in 1..Len(tasks) :
     ( /\ tasks[i].kind = "exit"
       /\ Settled(i)
       /\ tasks[i].failed = tasks[i].calls )
     => /\ Len(tasks[i].ops) = 1
        /\ \E k \in 1..Len(ls_failed) :
              /\ ls_failed[k].id = tasks[i].ops[1]
              /\ ls_failed[k].operation.type = "COMPLETE_TRIP"
              /\ ls_failed[k].operation.data.destinationStationId
                    = tasks[i].station
              /\ ls_failed[k].operation.data.finalCost = tasks[i].amount

\* C3: every accepted exit that debited a fare ends, once its background sync
\* has settled, with completeTrip accepted by the backend for the card's trip
\* or with a COMPLETE_TRIP record in the persisted backlog.
C3_NoExitDropped ==
  \A i \in 1..Len(tasks) :
     (tasks[i].kind = "exit" /\ Settled(i))
     => \/ /\ tasks[i].outcome = "synced"
           /\ db_trips[tasks[i].tripId].status = "completed"
        \/ Persisted(i, "COMPLETE_TRIP")

\* C4: a top-up whose backend sync has failed and settled has an ADD_FUNDS
\* record carrying the credited amount in the persisted backlog, and that
\* record was exported.
C4_TopUpBackendFails ==
  \A i \in 1..Len(tasks) :
     ( /\ tasks[i].kind = "topup"
       /\ Settled(i)
       /\ tasks[i].failed > 0 )
     => /\ Persisted(i, "ADD_FUNDS")
        /\ \E k \in 1..Len(ls_failed) :
              /\ ls_failed[k].id = tasks[i].ops[1]
              /\ ls_failed[k].operation.data.amount = tasks[i].amount
              /\ \E f \in 1..Len(exported) : exported[f] = <<ls_failed[k]>>

\* C5: an exit tap on a card with an active trip and a balance < the fare
\* leaves balance and trip as they were, returns a failure flagged as
\* insufficient balance whose shortfall is fare - balance, and issues no
\* backend write, in its own step and ever after.
C5_RejectedExit ==
  [][ /\ \A x \in Stations :
           LET cardData == ScanCard(ls_balance).card
               tripData == ReadCardTrip(ls_trip, TestCard)
               fare == FareOf(fareCache, tripData.station_id, x)
           IN ( /\ HandleScannerClick("scan-to-exit", x, x)
                /\ tripData # NoTrip
                /\ fare # Null
                /\ cardData.balance < fare )
              => /\ ledger' = ledger
                 /\ ~result'.success /\ result'.isInsufficientBalance
                 /\ result'.short = fare - cardData.balance
                 /\ tasks'[Len(tasks')].stage = "rejected"
                 /\ db_trips' = db_trips /\ sink' = sink
      /\ \A i \in 1..Len(tasks) :
           LET t == tasks[i]
               fare == FareOf(fareCache', t.entry, t.station)
           IN ( /\ FareFetchOk(i) \/ FareFetchFail(i)
                /\ t.balance < fare )
              => /\ ledger' = ledger
                 /\ ~result'.success /\ result'.isInsufficientBalance
                 /\ result'.short = fare - t.balance
                 /\ tasks'[i].stage = "rejected"
                 /\ db_trips' = db_trips /\ sink' = sink
      /\ \A i \in 1..Len(tasks) :
           tasks[i].stage = "rejected" => tasks'[i] = tasks[i]
    ]_vars

\* balance 3.00 against the static fare 3.25: short by 0.25, trip kept
C5_Witness ==
  /\ result.handler = "exit" /\ ~result.success
  /\ result.isInsufficientBalance
  /\ result.fare = 325 /\ result.short = 25
  /\ ls_balance[TestCard] = 300
  /\ ls_trip[TestCard] # NoTrip
  /\ \E i \in 1..Len(tasks) :
        tasks[i].stage = "rejected" /\ tasks[i].tap = result.tap

\* the route names that the switch of handleScan sends to handleDefaultScan
EntryRoutes ==
  Routes \ { "history", "add-fare", "add-fare-payment", "add-fare-complete",
             "purchase-card-payment", "purchase-card-dispensing",
             "scan-to-exit" }

\* the minimum fare in force: the fare store's once it is loaded, and the
\* config manager's before that
MinimumFareInForce ==
  IF minimumFare # Null THEN minimumFare ELSE GetMinimumFare(config)

\* C6: an entry tap on a card whose balance is >= the minimum fare sets the
\* card's trip to the entry station with the entry time, and the balance a
\* scan reads is the same after the tap as before it.
C6_AcceptedEntry ==
  [][ \A r \in EntryRoutes, e \in Stations :
        LET cardData == ScanCard(ls_balance).card
        IN ( /\ HandleScannerClick(r, e, e)
             /\ cardData # NoCard
             /\ cardData.balance >= MinimumFareInForce )
           => /\ ls_trip'[cardData.uuid] =
                    [station_id |-> e, timestamp |-> taps']
              /\ ScanCard(ls_balance').card = cardData
              /\ result'.success
    ]_vars

\* a stored balance of 3.00 after an entry at station 1 on the first tap
C6_Witness ==
  /\ result.handler = "entry" /\ result.success /\ result.tap = 1
  /\ ls_trip[TestCard] = [station_id |-> 1, timestamp |-> 1]
  /\ ls_balance[TestCard] = 300
  /\ minimumFare = BackendMinimumFare

\* C7: an entry tap on a card whose balance is < the minimum fare is rejected
\* with the insufficient-balance flag and the scanned card returned, and it
\* sets no trip, leaves the balance, issues no createTrip and records no
\* failed operation.
C7_RejectedEntry ==
  [][ \A r \in EntryRoutes, e \in Stations :
        LET cardData == ScanCard(ls_balance).card
        IN ( /\ HandleScannerClick(r, e, e)
             /\ cardData # NoCard
             /\ cardData.balance < MinimumFareInForce )
           => /\ ~result'.success /\ result'.isInsufficientBalance
              /\ result'.lastScannedCard = cardData
              /\ ledger' = ledger
              /\ tasks' = tasks
              /\ sink' = sink
    ]_vars

\* C8: an entry tap on a card that has an active trip does not overwrite the
\* stored entry station and entry time and issues no second createTrip.
C8_SingleActiveTrip ==
  [][ \A r \in EntryRoutes, e \in Stations :
        ( /\ HandleScannerClick(r, e, e)
          /\ ReadCardTrip(ls_trip, TestCard) # NoTrip )
        => /\ ls_trip' = ls_trip
           /\ tasks' = tasks
    ]_vars

\* a backend call of a background sync failing, recorded or not
SyncFails(i) ==
  \/ CreateTripFail(i)
  \/ ExitGetCardFail(i)
  \/ ExitGetActiveTripFail(i)
  \/ CompleteTripFail(i)
  \/ TopUpGetCardFail(i)
  \/ AddFundsFail(i)
  \/ CreateCardFail(i)

\* C9: no failure of a background sync, recorded as a failed operation or
\* not, writes to the card ledger: trip and balances stay as the tap left them.
C9_NoRollback ==
  [][ \A i \in 1..Len(tasks) : SyncFails(i) => ledger' = ledger ]_vars

\* a debited exit whose completeTrip failed and was recorded, the debit kept
C9_Witness ==
  \E i \in 1..Len(tasks) :
     /\ tasks[i].kind = "exit" /\ tasks[i].outcome = "recorded"
     /\ Persisted(i, "COMPLETE_TRIP")
     /\ ls_balance[tasks[i].uuid] = tasks[i].balance - tasks[i].amount
     /\ ls_trip[tasks[i].uuid] = NoTrip

\* C10: an entry tap returns its outcome and makes its ledger transition in
\* the tap's own step, with createTrip at most requested and nothing of the
\* backend or the backlog touched; the later answer of createTrip, success or
\* failure, changes neither the outcome nor the ledger.
C10_LocalFirstEntry ==
  [][ /\ \A r \in EntryRoutes, e \in Stations :
           HandleScannerClick(r, e, e)
           => /\ result'.handler = "entry" /\ result'.tap = taps'
              /\ db_trips' = db_trips /\ sink' = sink
              /\ result'.success
                   => /\ ls_trip'[TestCard].timestamp = taps'
                      /\ tasks'[Len(tasks')].stage = "createTrip"
      /\ \A i \in 1..Len(tasks) :
           (CreateTripOk(i) \/ CreateTripFail(i))
           => /\ ledger' = ledger
              /\ result' = result
              /\ lastScannedCard' = lastScannedCard
    ]_vars

\* the entry's outcome is out and its trip is set while createTrip is pending
C10_Witness ==
  \E i \in 1..Len(tasks) :
     /\ tasks[i].kind = "entry" /\ tasks[i].stage = "createTrip"
     /\ result.handler = "entry" /\ result.success
     /\ result.tap = tasks[i].tap
     /\ ls_trip[tasks[i].uuid] =
           [station_id |-> tasks[i].station, timestamp |-> tasks[i].tap]

\* the pair has no entry in the fare table of the configuration
Unpriced(c, a, b) ==
  ~ \E p \in ConfigPricing(EnsureConfig(c)) :
        \/ p.stationA = a /\ p.stationB = b
        \/ p.stationA = b /\ p.stationB = a

\* C11: for every pair of stations that has no entry in the fare table, the
\* fare the config manager resolves is the minimum fare, and so is the fare
\* the exit flow charges for the pair (the fare store's price, once it holds
\* one).
C11_MinimumFareFallback ==
  \A a \in Stations, b \in Stations :
    Unpriced(config, a, b) =>
      /\ GetPricing(config, a, b) = GetMinimumFare(config)
      /\ FareOf(fareCache, a, b) # Null =>
            FareOf(fareCache, a, b) = GetMinimumFare(config)

\* C12: the fare resolved for (a, b) is the fare resolved for (b, a), by the
\* config manager and by the fare store's cache alike; with the static
\* snapshot loaded, (1, 2) and (2, 1) both resolve to 3.25.
C12_FareSymmetry ==
  [][ LET a == answer'.a
          b == answer'.b
      IN /\ a \in StationIds /\ b \in StationIds /\ CallGetPricing(a, b) =>
              /\ answer'.fare = GetPricing(config', b, a)
              /\ config' = StaticConfig /\ {a, b} = {1, 2} =>
                    answer'.fare = 325
         /\ a \in Stations /\ b \in Stations
               /\ CallGetFareBetweenStations(a, b) =>
              answer'.fare = GetFareBetweenStations(fareCache', b, a) ]_vars

C12_Witness ==
  /\ config = StaticConfig
  /\ answer.op = "getPricing"
  /\ answer.a = 2
  /\ answer.b = 1
  /\ answer.fare = 325

\* every accessor answers with the backend's data
AllBackend(c) ==
  /\ GetStations(c) = BackendStations
  /\ ConfigPricing(EnsureConfig(c)) = BackendPricing
  /\ GetMinimumFare(c) = BackendMinimumFare

\* every accessor answers with the static snapshot
AllStatic(c) ==
  /\ GetStations(c) = StaticStations
  /\ ConfigPricing(EnsureConfig(c)) = StaticPricing
  /\ GetMinimumFare(c) = StaticMinimumFare

\* C13: when initialize() completes, the configuration is the backend's in
\* all three parts and startedOffline is false (all three reads answered
\* well-formed data), or the static snapshot in all three parts and
\* startedOffline is true (a read failed or was malformed); never a mix.
C13_AllOrNothing ==
  [][ \A s \in StationsBodies, p \in PricingBodies, m \in MinFareBodies :
        ConfigInitialize(s, p, m) =>
          IF s = "list" /\ p = "list" /\ m = "object"
            THEN AllBackend(config') /\ ~ startedOffline'
            ELSE AllStatic(config') /\ startedOffline' ]_vars

\* C14: an initialize() whose reads all fail leaves startedInOfflineMode()
\* true, and getStations(), the pricing and the minimum fare are the static
\* snapshot's.
C14_OfflineBoot ==
  [][ ConfigInitialize("failed", "failed", "failed") =>
        /\ StartedInOfflineMode'
        /\ GetStations(config') = StaticStations
        /\ ConfigPricing(config') = StaticPricing
        /\ GetMinimumFare(config') = StaticMinimumFare ]_vars

C14_Witness ==
  /\ startedOffline
  /\ config = StaticConfig
  /\ answer.op = "getStations"
  /\ answer.stations = StaticStations

\* C15: whatever initialize() calls came before, getStations(), getPricing()
\* and getMinimumFare() answer with a non-empty station list and a fare;
\* before any initialize() they answer with the static snapshot's values.
C15_GettersNeverEmpty ==
  /\ answer.op = "getStations" => answer.stations # <<>>
  /\ answer.op \in {"getPricing", "getMinimumFare"} => answer.fare > 0
  /\ config = NullConfig => AllStatic(config)

\* C16: an exit tap on a card without an active trip succeeds, leaves the
\* balance the card reads with unchanged, sets no trip, starts no backend
\* call and records no failed operation.
C16_ExitWithoutTrip ==
  [][ \A x \in Stations :
        LET cardData == ScanCard(ls_balance).card
        IN ( /\ HandleScannerClick("scan-to-exit", x, x)
             /\ cardData # NoCard
             /\ ReadCardTrip(ls_trip, cardData.uuid) = NoTrip )
           => /\ result'.handler = "exit" /\ result'.success
              /\ result'.tap = taps'
              /\ ScanCard(ls_balance').card = cardData
              /\ ls_trip' = ls_trip
              /\ tasks' = tasks
              /\ db_trips' = db_trips
              /\ sink' = sink ]_vars

\* the first tap of a kiosk is an exit: success, and nothing was started
C16_Witness ==
  /\ taps = 1
  /\ result.handler = "exit" /\ result.success /\ result.tap = 1
  /\ ls_trip[TestCard] = NoTrip
  /\ tasks = <<>>
  /\ ls_failed = <<>>

\* C17: a top-up payment of amount a leaves the card's ledger balance at the
\* ledger balance right before the payment plus a, whatever happened to the
\* card since the top-up scan or the insufficient-balance shortcut, and
\* leaves the card's trip as it was.
C17_TopUpCredit ==
  [][ \A s \in Stations :
        ( /\ HandleScannerClick("add-fare-payment", s, s)
          /\ addFare.scannedCard # NoCard )
        => LET uuid == addFare.scannedCard.uuid
           IN /\ ls_balance'[uuid] = ls_balance[uuid] + addFare.selectedAmount
              /\ ls_trip' = ls_trip ]_vars

\* C18: every card's local balance is >= 0 in every reachable state, after
\* any card issuances, entries, exits, top-ups and debug balance updates.
C18_NonNegativeBalance ==
  \A uuid \in UUIDS : ls_balance[uuid] = Null \/ ls_balance[uuid] >= 0

\* the debug panel has set the balance to 0 and a tap has read it since
C18_Witness ==
  /\ debug.updates > 0
  /\ ls_balance[TestCard] = 0
  /\ result.tap = taps /\ taps > 0
  /\ ~result.success /\ result.isInsufficientBalance

\* the wrapper call of task i resolved with an 'offline_pending' placeholder
\* and handed exactly this one operation to the failed-operations writer
HandedOver(i, operation) ==
  /\ tasks'[i].stage = "settled"
  /\ tasks'[i].status = "offline_pending"
  /\ result' = result
  /\ opCount' = opCount + 1
  /\ Len(failedOps') = Len(failedOps) + 1
  /\ SubSeq(failedOps', 1, Len(failedOps)) = failedOps
  /\ failedOps'[Len(failedOps')].id = opCount'
  /\ failedOps'[Len(failedOps')].operation = operation

Retained(id) == \E k \in 1..Len(ls_failed) : ls_failed[k].id = id

\* C20: after any sequence of recorded operations the persisted backlog holds
\* at most 100 entries, holds the operation recorded last, and has dropped an
\* operation only if it has dropped every operation recorded before it.
C20_RetentionCap ==
  /\ Len(ls_failed) <= RetentionCap
  /\ opCount > 0 => Retained(opCount)
  /\ \A older \in 1..opCount, newer \in 1..opCount :
       older < newer /\ Retained(older) => Retained(newer)

\* the backlog is full and the first operation has been dropped from it
C20_Witness ==
  /\ Len(ls_failed) = RetentionCap
  /\ opCount > 1
  /\ ~ Retained(1)
  /\ Retained(opCount)

\* C21: exportAllFromStorage leaves the persisted backlog and the in-memory
\* batch as they were and exports the backlog; called again with nothing
\* recorded in between it exports the same list of operations.
C21_ExportAllIdempotent ==
  [][ ExportAllFromStorage =>
        /\ ls_failed' = ls_failed
        /\ failedOps' = failedOps
        /\ answer'.count = Len(ls_failed)
        /\ ls_failed # <<>> => exported'[Len(exported')] = ls_failed
        /\ answer.op = "exportAllFromStorage" =>
             /\ answer'.count = answer.count
             /\ ls_failed # <<>> =>
                   exported'[Len(exported')] = exported[Len(exported)] ]_vars

\* two records, then two exports in a row: both files hold the backlog
C21_Witness ==
  /\ answer.op = "exportAllFromStorage"
  /\ opCount = 2
  /\ Len(exported) = 4
  /\ exported[3] = ls_failed
  /\ exported[4] = ls_failed
  /\ failedOps # <<>>

\* C22: a failure while a failed operation is persisted or exported (the
\* storage throws, the download throws) leaves the tap's outcome and the card
\* ledger as they were and does not reach the caller of the record as an
\* error: the wrapper's call still resolves.
C22_SinkFailuresContained ==
  [][ \A i \in 1..Len(tasks) : \A fault \in SinkFaults :
        CreateTripFailSinkFails(i, fault) =>
          /\ result' = result
          /\ ledger' = ledger
          /\ tasks'[i].outcome # "threw" ]_vars

\* C23: the ledger reads and writes of one tap happen before any ledger read
\* or write of another tap or of a balance update: when an exit that waited
\* for its fare goes on to its balance check and debit, the ledger still
\* holds the balance and the trip the tap read, and no other exit is waiting
\* on the same card.
C23_TapsDoNotOverlap ==
  [][ \A i \in 1..Len(tasks) :
        FareFetchOk(i) \/ FareFetchFail(i) =>
          LET t == tasks[i]
          IN /\ ls_balance[t.uuid] = t.balance
             /\ ls_trip[t.uuid] # NoTrip
             /\ ls_trip[t.uuid].station_id = t.entry
             /\ \A j \in 1..Len(tasks) :
                  j # i /\ tasks[j].uuid = t.uuid => tasks[j].stage # "fare"
    ]_vars

\* task i has no request open and none to come
TaskEnded(i) ==
  /\ i <= Len(tasks)
  /\ tasks[i].stage \in {"settled", "rejected"}

\* C24: even when a backend request never responds, every tap that calls the
\* backend eventually has its outcome and the end of its sync: its task
\* leaves the open requests behind (rejected, or settled as completed or as
\* captured by the failed-operations writer).
C24_BoundedCalls ==
  \A i \in 1..MaxTaps : [](i <= Len(tasks) => <>TaskEnded(i))

\* C25: the fare an exit is charged is the fare the loaded configuration
\* gives for the pair, resolved without a backend call: an exit tap on a card
\* with a trip goes on to its balance check in its own step, with the fare
\* of the configuration's table, whatever the backend answers and whatever
\* startedOffline is.
C25_PureFareResolution ==
  [][ /\ \A x \in Stations :
           LET tripData == ReadCardTrip(ls_trip, TestCard)
           IN ( /\ HandleScannerClick("scan-to-exit", x, x)
                /\ tripData # NoTrip )
              => /\ Len(tasks') = Len(tasks) + 1
                 /\ tasks'[Len(tasks')].stage # "fare"
                 /\ tasks'[Len(tasks')].amount =
                      GetPricing(config, tripData.station_id, x)
      /\ \A i \in 1..Len(tasks) : ~ FareFetchOk(i) /\ ~ FareFetchFail(i)
    ]_vars

\* C26: after k recorded operations (k <= 100, the backlog empty at first and
\* never cleared) the persisted backlog holds exactly k entries, one for each
\* recorded operation, no id twice.
C26_NoDuplicates ==
  opCount <= RetentionCap =>
    /\ Len(ls_failed) = opCount
    /\ \A id \in 1..opCount : Retained(id)
    /\ \A k \in 1..Len(ls_failed), l \in 1..Len(ls_failed) :
         ls_failed[k].id = ls_failed[l].id => k = l

\* C27: after clearStorage the pending count is 0, and an operation recorded
\* next (the backlog being empty although operations were recorded before:
\* it was cleared after them) leaves the persisted backlog with operations
\* recorded after the clear only.
C27_ClearedStayCleared ==
  [][ /\ ClearStorage => Len(ls_failed') = 0
      /\ GetPendingCount /\ answer.op = "clearStorage" => answer'.count = 0
      /\ OfflineCreateCardFails /\ ls_failed = <<>> =>
           \A k \in 1..Len(ls_failed') : ls_failed'[k].id > opCount ]_vars

\* C28: an entry tap on a card whose balance is below the minimum fare in
\* force is never accepted (it sets no trip, issues no createTrip and does
\* not succeed), also while the fare store's minimum fare is still unset.
C28_EntryCheckDuringStartup ==
  [][ \A r \in EntryRoutes, e \in Stations :
        LET cardData == ScanCard(ls_balance).card
        IN ( /\ HandleScannerClick(r, e, e)
             /\ cardData # NoCard
             /\ ReadCardTrip(ls_trip, cardData.uuid) = NoTrip
             /\ cardData.balance < MinimumFareInForce )
           => /\ ReadCardTrip(ls_trip', cardData.uuid) = NoTrip
              /\ Len(tasks') = Len(tasks)
              /\ ~result'.success
    ]_vars

\* the three startup requests and the fare store's initialization have
\* completed
StartupSettled ==
  boot.minFare = "done" /\ boot.preload = "done" /\ boot.init = "done"

\* the fare store holds this minimum fare and, for every pair of this pricing
\* list, this price
FareStoreHolds(pricing, minFare) ==
  /\ minimumFare = minFare
  /\ \A p \in pricing :
        CacheKey(p.stationA, p.stationB) \in Keys =>
          fareCache[CacheKey(p.stationA, p.stationB)] = p.fare

\* C29: once startup has settled, the fare store's minimum fare and cached
\* prices are all the backend's or all the static snapshot's, and they are
\* those of the config manager's configuration, whatever the order in which
\* the startup requests completed and whichever of them failed.
C29_SingleSourceFareData ==
  StartupSettled =>
    /\ \/ FareStoreHolds(BackendPricing, BackendMinimumFare)
       \/ FareStoreHolds(StaticPricing, StaticMinimumFare)
    /\ FareStoreHolds(ConfigPricing(EnsureConfig(config)),
                      GetMinimumFare(config))

\* C30: a scan dispatched while a screen other than home is shown never sets
\* or overwrites an active trip and issues no createTrip.
C30_EntryOnlyFromHome ==
  [][ \A r \in Routes \ {"home"}, e \in Stations :
        HandleScannerClick(r, e, e) =>
          /\ \A u \in UUIDS : ls_trip'[u] \in {ls_trip[u], NoTrip}
          /\ \A i \in 1..Len(tasks') :
               i > Len(tasks) => tasks'[i].kind # "entry"
    ]_vars

====
